---- MODULE Spec2Model ----
(***************************************************************************)
(* Command dispatch and session persistence of gpt-cli                     *)
(* (src/lib/command.ts, src/lib/session.ts, src/lib/model.ts).             *)
(*                                                                         *)
(* Text is a sequence of atoms.  An atom is an indivisible piece of text   *)
(* ("/help", ".json", " ", "a"); no atom is a concatenation of others, so  *)
(* two texts are equal exactly when their sequences are equal.  String     *)
(* operations (trim, split, replace, endsWith, template literals) work on  *)
(* these sequences the way the JavaScript ones work on characters.         *)
(*                                                                         *)
(* Spec is the command dispatcher with the session store on a disk;        *)
(* AtSpec, ClassifierSpec and ResolverSpec each apply one function         *)
(* (handleAtCommand, newSlashCommand, the lookup in modelMap) to arguments *)
(* drawn by their Init.                                                    *)
(***************************************************************************)
EXTENDS Integers, Sequences, FiniteSets, TLC

VARIABLES
    messages,     \* the caller's history: the array it passes to and gets back from handleSlashCommand
    paramsModel,  \* CommandLineInterface.getInstance().params.model
    modelStack,   \* command.ts:16
    dirExists,    \* whether SESSION_DIR exists on disk
    fs,           \* the files on disk: path -> [text, mtime]
    now,          \* the wall clock, in milliseconds
    pc,           \* "prompt" while the process reads input, "exited" after Deno.exit;
                  \* "call" and "done" around the one call of a function specification
    lastCmd,      \* what newSlashCommand returned for the last input
    outcome,      \* how the last turn ended: "none", "invalid", "returned", "threw", "exited"
    autosaved,    \* whether the last turn called autoSave
    picked,       \* the path resumeLatestSession chose in the last turn (<<>> when none)
    listing,      \* what listSessions returned in the last turn
    turns,        \* how many inputs the process has read
    io,           \* what the last turn met outside the process: the failing system call,
                  \* the file a store operation wrote, read or removed, the File Loader's results
    arg,          \* the arguments of the function applied outside a command turn
    ret           \* what that function returned

vars == <<messages, paramsModel, modelStack, dirExists, fs, now, pc,
          lastCmd, outcome, autosaved, picked, listing, turns, io, arg, ret>>

(***************************************************************************)
(* Bounds of the model.                                                    *)
(***************************************************************************)
MaxTime == 3        \* the clock runs up to MaxTime
MaxTurns == 2       \* inputs the process reads
MaxInitLen == 5     \* length of the history the process starts with
MaxHistory == 6     \* /file attaches only while the history is shorter than this
MaxFiles == 4       \* no write grows the disk beyond this many files
MaxMatched == 2     \* files a /file pattern matches
MaxAtLen == 3       \* length of the history handleAtCommand is given
MaxTokens == 3      \* tokens of a command line given to newSlashCommand
MaxPieces == 3      \* pieces a model identifier is made of

(***************************************************************************)
(* Text helpers.                                                           *)
(***************************************************************************)
WhiteSpace == {" ", "\t", "\n"}

RECURSIVE trimStart(_)
trimStart(s) ==
    IF s # <<>> /\ Head(s) \in WhiteSpace THEN trimStart(Tail(s)) ELSE s

RECURSIVE trimEnd(_)
trimEnd(s) ==
    IF s # <<>> /\ s[Len(s)] \in WhiteSpace
    THEN trimEnd(SubSeq(s, 1, Len(s) - 1))
    ELSE s

trim(s) == trimEnd(trimStart(s))

\* s.split(/[\s\n\t]+/): the pieces between maximal runs of white space; the
\* result always has at least one piece (the empty text splits into [""]).
RECURSIVE splitFrom(_, _, _)
splitFrom(s, cur, acc) ==
    IF s = <<>> THEN Append(acc, cur)
    ELSE IF Head(s) \in WhiteSpace
         THEN splitFrom(trimStart(s), <<>>, Append(acc, cur))
         ELSE splitFrom(Tail(s), Append(cur, Head(s)), acc)

split(s) == splitFrom(s, <<>>, <<>>)

endsWith(s, atom) == s # <<>> /\ s[Len(s)] = atom

\* s.replace(atom, ""): removes the FIRST occurrence only
RECURSIVE replaceFirst(_, _)
replaceFirst(s, atom) ==
    IF s = <<>> THEN <<>>
    ELSE IF Head(s) = atom THEN Tail(s)
         ELSE <<Head(s)>> \o replaceFirst(Tail(s), atom)

\* s.replace(/[:.]/g, "-")
sanitize(s) == [i \in 1..Len(s) |-> IF s[i] \in {":", "."} THEN "-" ELSE s[i]]

(***************************************************************************)
(* Command Classifier (command.ts:33-90).                                  *)
(***************************************************************************)
Command ==
    [Help |-> "HELP", Clear |-> "CLEAR", ModelStack |-> "MODELSTACK",
     Bye |-> "BYE", File |-> "FILE", Save |-> "SAVE", Load |-> "LOAD",
     Sessions |-> "SESSIONS", Delete |-> "DELETE",
     ResumeLatest |-> "RESUME_LATEST"]

commandMap ==
    (<<"/help">> :> Command.Help) @@ (<<"/?">> :> Command.Help) @@
    (<<"/clear">> :> Command.Clear) @@
    (<<"/modelStack">> :> Command.ModelStack) @@
    (<<"/bye">> :> Command.Bye) @@ (<<"/exit">> :> Command.Bye) @@
    (<<"/quit">> :> Command.Bye) @@
    (<<"/file">> :> Command.File) @@ (<<"/save">> :> Command.Save) @@
    (<<"/load">> :> Command.Load) @@
    (<<"/sessions">> :> Command.Sessions) @@
    (<<"/delete">> :> Command.Delete) @@
    (<<"/resume-latest">> :> Command.ResumeLatest)

PathCommands == {Command.File, Command.Save, Command.Load, Command.Delete}

\* newSlashCommand looking the command up by the start of the first token
newSlashCommand_prefix(input) ==
    LET inputParts == split(trim(input))
        input0 == IF inputParts[1] = <<>> THEN <<>> ELSE <<inputParts[1][1]>>
    IN  IF input0 \notin DOMAIN commandMap
        THEN [error |-> "Invalid command", command |-> "", withPath |-> FALSE, path |-> <<>>]
        ELSE IF commandMap[input0] \in PathCommands /\ Len(inputParts) > 1
             THEN [error |-> "", command |-> commandMap[input0],
                   withPath |-> TRUE, path |-> inputParts[2]]
             ELSE [error |-> "", command |-> commandMap[input0],
                   withPath |-> FALSE, path |-> <<>>]

\* newSlashCommand without the test that the tag is File, Save, Load or Delete
newSlashCommand_anyTag(input) ==
    LET inputParts == split(trim(input))
        input0 == inputParts[1]
    IN  IF input0 \notin DOMAIN commandMap
        THEN [error |-> "Invalid command", command |-> "", withPath |-> FALSE, path |-> <<>>]
        ELSE IF Len(inputParts) > 1
             THEN [error |-> "", command |-> commandMap[input0],
                   withPath |-> TRUE, path |-> inputParts[2]]
             ELSE [error |-> "", command |-> commandMap[input0],
                   withPath |-> FALSE, path |-> <<>>]

\* The result of newSlashCommand: error # "" when it throws; otherwise the
\* bare tag (withPath = FALSE) or the object {command, path}.
newSlashCommand(input) ==
    LET inputParts == split(trim(input))
        input0 == inputParts[1]
    IN  IF input0 \notin DOMAIN commandMap
        THEN [error |-> "Invalid command", command |-> "", withPath |-> FALSE, path |-> <<>>]
        ELSE IF commandMap[input0] \in PathCommands /\ Len(inputParts) > 1
             THEN [error |-> "", command |-> commandMap[input0],
                   withPath |-> TRUE, path |-> inputParts[2]]
             ELSE [error |-> "", command |-> commandMap[input0],
                   withPath |-> FALSE, path |-> <<>>]

(***************************************************************************)
(* Messages.  An entry of the history is a LangChain message object (cls   *)
(* is its class, type what its _getType() returns) or, after               *)
(* /resume-latest, a plain object parsed from JSON (cls = "Object", which  *)
(* has a type field but no _getType method and is an instance of no        *)
(* message class).                                                         *)
(***************************************************************************)
MessageClasses == {"SystemMessage", "HumanMessage", "AIMessage", "ChatMessage"}

_getType(cls) ==
    CASE cls = "SystemMessage" -> "system"
      [] cls = "HumanMessage" -> "human"
      [] cls = "AIMessage" -> "ai"
      [] OTHER -> "generic"

NewMessage(cls, content) == [cls |-> cls, type |-> _getType(cls), content |-> content]

hasGetType(m) == m.cls \in MessageClasses

instanceof(m, cls) == m.cls = cls

\* session.ts:55-60
getMessageType(m) ==
    IF instanceof(m, "HumanMessage") THEN "human"
    ELSE IF instanceof(m, "AIMessage") THEN "ai"
    ELSE IF instanceof(m, "SystemMessage") THEN "system"
    ELSE "unknown"

(***************************************************************************)
(* JSON.  A file's text is JSON for an object (kind = "json"), text that   *)
(* JSON.parse rejects (kind = "garbage"), or the empty text.               *)
(* JSON.stringify keeps the fields of the data and nothing of the classes; *)
(* JSON.parse gives plain objects.                                         *)
(***************************************************************************)
JSONstringify(data) ==
    [kind |-> "json", model |-> data.model,
     messages |-> [i \in 1..Len(data.messages) |->
                     [type |-> data.messages[i].type,
                      content |-> data.messages[i].content]],
     timestamp |-> data.timestamp]

JSONparseThrows(text) == text.kind # "json"

JSONparse(text) ==
    [model |-> text.model,
     messages |-> [i \in 1..Len(text.messages) |->
                     [cls |-> "Object", type |-> text.messages[i].type,
                      content |-> text.messages[i].content]],
     timestamp |-> text.timestamp]

GarbageText == [kind |-> "garbage", model |-> "", messages |-> <<>>, timestamp |-> <<>>]
EmptyText == [kind |-> "empty", model |-> "", messages |-> <<>>, timestamp |-> <<>>]

\* new Date().toISOString() at clock value t
Millis == <<"001", "002", "003", "004", "005">>
toISOString(t) == <<"2025-01-01T00", ":", "00", ":", "00", ".", Millis[t], "Z">>

(***************************************************************************)
(* Session Store (session.ts).                                             *)
(***************************************************************************)
SESSION_DIR == <<"$HOME", "/", ".gpt-cli", "/", "sessions">>

\* `${SESSION_DIR}/${name}.json`
sessionPath(name) == SESSION_DIR \o <<"/">> \o name \o <<".json">>

\* A path is text whose "/" atoms separate its components.  The operating
\* system follows the components from the left; a ".." component leads back to
\* the directory before it.  realPath is the file a path names; the disk is
\* keyed by it.
RECURSIVE componentsFrom(_, _, _)
componentsFrom(path, cur, acc) ==
    IF path = <<>> THEN Append(acc, cur)
    ELSE IF Head(path) = "/"
         THEN componentsFrom(Tail(path), <<>>, Append(acc, cur))
         ELSE componentsFrom(Tail(path), Append(cur, Head(path)), acc)

components(path) == componentsFrom(path, <<>>, <<>>)

RECURSIVE follow(_, _)
follow(comps, at) ==
    IF comps = <<>> THEN at
    ELSE IF Head(comps) = <<"..">>
         THEN follow(Tail(comps), IF Len(at) > 1 THEN SubSeq(at, 1, Len(at) - 1) ELSE at)
         ELSE follow(Tail(comps), Append(at, Head(comps)))

RECURSIVE joinPath(_)
joinPath(comps) ==
    IF Len(comps) = 1 THEN comps[1]
    ELSE comps[1] \o <<"/">> \o joinPath(Tail(comps))

realPath(path) == joinPath(follow(components(path), <<>>))

\* The directory a file lies in
dirname(path) ==
    LET comps == components(path) IN joinPath(SubSeq(comps, 1, Len(comps) - 1))

\* The directories on disk: ensureDir(SESSION_DIR) creates SESSION_DIR and the
\* directories above it, and nothing creates any other
Directories(dir) ==
    IF dir THEN {<<"$HOME">>, <<"$HOME", "/", ".gpt-cli">>, SESSION_DIR}
    ELSE {<<"$HOME">>}

\* Deno.writeTextFile fails when the directory of the file does not exist
writeThrows(dir, path) == dirname(realPath(path)) \notin Directories(dir)

\* Deno.writeTextFile with the option append: text added to a file that has
\* text already gives a file that is no JSON
writeTextFile_appends(f, path, text, t) ==
    LET file == realPath(path) IN
    [p \in DOMAIN f \cup {file} |->
        IF p = file
        THEN [text |-> IF file \in DOMAIN f /\ f[file].text.kind # "empty"
                       THEN [kind |-> "garbage", model |-> "", messages |-> <<>>,
                             timestamp |-> <<>>]
                       ELSE text,
              mtime |-> t]
        ELSE f[p]]

\* Deno.writeTextFile / Deno.remove on the file map
writeTextFile(f, path, text, t) ==
    LET file == realPath(path) IN
    [p \in DOMAIN f \cup {file} |->
        IF p = file THEN [text |-> text, mtime |-> t] ELSE f[p]]

remove(f, path) ==
    LET file == realPath(path) IN [p \in DOMAIN f \ {file} |-> f[p]]

\* The names Deno.readDir(SESSION_DIR) yields: the files directly in it
entryName(p) == SubSeq(p, Len(SESSION_DIR) + 2, Len(p))

readDir(f) ==
    {entryName(p) : p \in {q \in DOMAIN f :
        /\ Len(q) > Len(SESSION_DIR) + 1
        /\ SubSeq(q, 1, Len(SESSION_DIR) + 1) = SESSION_DIR \o <<"/">>
        /\ \A i \in (Len(SESSION_DIR) + 2)..Len(q) : q[i] # "/"}}

entryPath(name) == SESSION_DIR \o <<"/">> \o name

\* What a session-store operation leaves behind: whether it threw, the disk,
\* and what it returns.
StoreResult(threw, dir, f, mdl, msgs) ==
    [threw |-> threw, dirExists |-> dir, fs |-> f, model |-> mdl, messages |-> msgs]

\* session.ts:7-16.  `fault` names the system call that fails in this turn.
saveSession(name, msgs, mdl, t, fault) ==
    IF fault = "ensureDir"
    THEN StoreResult(TRUE, dirExists, fs, mdl, msgs)
    ELSE IF \E i \in 1..Len(msgs) : ~hasGetType(msgs[i])
    THEN StoreResult(TRUE, TRUE, fs, mdl, msgs)      \* m._getType is not a function
    ELSE IF fault = "writeTextFile" \/ writeThrows(TRUE, sessionPath(name))
    THEN StoreResult(TRUE, TRUE, fs, mdl, msgs)
    ELSE LET data == [model |-> mdl,
                      messages |-> [i \in 1..Len(msgs) |->
                          [type |-> _getType(msgs[i].cls), content |-> msgs[i].content]],
                      timestamp |-> toISOString(t)]
         IN  StoreResult(FALSE, TRUE,
                 writeTextFile(fs, sessionPath(name), JSONstringify(data), t),
                 mdl, msgs)

\* restoreMessage as session.ts:29-31 had it: anything not system or human is ai
restoreMessage_aiFallback(m) ==
    CASE m.type = "system" -> NewMessage("SystemMessage", m.content)
      [] m.type = "human" -> NewMessage("HumanMessage", m.content)
      [] OTHER -> NewMessage("AIMessage", m.content)

\* session.ts:22-32: the message object built for one stored entry
restoreMessage(m) ==
    CASE m.type = "system" -> NewMessage("SystemMessage", m.content)
      [] m.type = "human" -> NewMessage("HumanMessage", m.content)
      [] m.type = "ai" -> NewMessage("AIMessage", m.content)
      [] OTHER -> NewMessage("HumanMessage", m.content)

\* session.ts:18-34
loadSession(name, fault) ==
    LET path == realPath(sessionPath(name)) IN
    IF path \notin DOMAIN fs \/ fault = "readTextFile"
    THEN StoreResult(TRUE, dirExists, fs, "", <<>>)
    ELSE IF JSONparseThrows(fs[path].text)
    THEN StoreResult(TRUE, dirExists, fs, "", <<>>)
    ELSE LET data == JSONparse(fs[path].text)
         IN  StoreResult(FALSE, dirExists, fs, data.model,
                 [i \in 1..Len(data.messages) |-> restoreMessage(data.messages[i])])

\* session.ts:36-48.  `order` is the order in which Deno.readDir yields the
\* entries of SESSION_DIR.
RECURSIVE listEntries(_)
listEntries(order) ==
    IF order = <<>> THEN <<>>
    ELSE IF endsWith(Head(order), ".json")
         THEN <<replaceFirst(Head(order), ".json")>> \o listEntries(Tail(order))
         ELSE listEntries(Tail(order))

listSessions(order, fault) ==
    IF ~dirExists \/ fault = "readDir" THEN <<>> ELSE listEntries(order)

\* deleteSession that treats a missing file as already deleted
deleteSession_ignoreMissing(name, fault) ==
    LET path == realPath(sessionPath(name)) IN
    IF fault = "remove"
    THEN StoreResult(TRUE, dirExists, fs, "", <<>>)
    ELSE StoreResult(FALSE, dirExists, remove(fs, path), "", <<>>)

\* session.ts:50-53
deleteSession(name, fault) ==
    LET path == realPath(sessionPath(name)) IN
    IF path \notin DOMAIN fs \/ fault = "remove"
    THEN StoreResult(TRUE, dirExists, fs, "", <<>>)
    ELSE StoreResult(FALSE, dirExists, remove(fs, path), "", <<>>)

\* session.ts:62-77
autoSaveName(t) == <<"autosave-">> \o sanitize(toISOString(t))

autoSave(msgs, mdl, t, fault) ==
    IF fault = "ensureDir"
    THEN StoreResult(TRUE, dirExists, fs, mdl, msgs)
    ELSE IF fault = "writeTextFile"
    THEN StoreResult(TRUE, TRUE, fs, mdl, msgs)
    ELSE LET data == [model |-> mdl,
                      messages |-> [i \in 1..Len(msgs) |->
                          [type |-> getMessageType(msgs[i]), content |-> msgs[i].content]],
                      timestamp |-> toISOString(t)]
         IN  StoreResult(FALSE, TRUE,
                 writeTextFile(fs, sessionPath(autoSaveName(t)), JSONstringify(data), t),
                 mdl, msgs)

\* the loop of resumeLatestSession without the update of latestTime
RECURSIVE latestOf_noUpdate(_, _, _)
latestOf_noUpdate(order, latestFile, latestTime) ==
    IF order = <<>> THEN latestFile
    ELSE LET filePath == entryPath(Head(order)) IN
         IF endsWith(Head(order), ".json") /\ fs[filePath].mtime > latestTime
         THEN latestOf_noUpdate(Tail(order), filePath, latestTime)
         ELSE latestOf_noUpdate(Tail(order), latestFile, latestTime)

\* session.ts:81-93: the loop over the directory; latest is <<>> for null
RECURSIVE latestOf(_, _, _)
latestOf(order, latestFile, latestTime) ==
    IF order = <<>> THEN latestFile
    ELSE LET filePath == entryPath(Head(order)) IN
         IF endsWith(Head(order), ".json") /\ fs[filePath].mtime > latestTime
         THEN latestOf(Tail(order), filePath, fs[filePath].mtime)
         ELSE latestOf(Tail(order), latestFile, latestTime)

\* session.ts:79-107.  Returns [found, content, path]: found = FALSE is null.
resumeLatestSession(order, fault) ==
    LET latestFile == latestOf(order, <<>>, 0)
        nothing == [found |-> FALSE, content |-> EmptyText, path |-> <<>>]
    IN  IF ~dirExists \/ fault = "readDir" THEN nothing
        ELSE IF fault = "stat" /\ \E i \in 1..Len(order) : endsWith(order[i], ".json")
        THEN nothing
        ELSE IF latestFile = <<>> THEN nothing
        ELSE IF fault = "readTextFile" THEN [nothing EXCEPT !.path = latestFile]
        ELSE [found |-> TRUE, content |-> fs[latestFile].text, path |-> latestFile]

(***************************************************************************)
(* The environment: what the user types, what is on disk when the process  *)
(* starts, which system call fails, what the File Loader finds.            *)
(***************************************************************************)
ArgTokens == {<<"x">>, <<"a", ".json", "b">>}

\* Names with "/" and ".." in them
PathTokens == {<<"..", "/", "x">>}

Inputs ==
    {<<c>> : c \in {"/help", "/?", "/clear", "/modelStack", "/bye", "/exit", "/quit",
                     "/file", "/save", "/load", "/sessions", "/delete",
                     "/resume-latest"}}
    \cup {<<c, " ">> \o a : c \in {"/save", "/load", "/delete"},
                             a \in ArgTokens \cup PathTokens}
    \cup {<<"/save", " ", "sub", "/", "x">>}
    \cup {<<"/file", " ", "*.ts">>,
          <<" ", "/save", "\t", " ", "x", " ", "extra", "\n">>,
          <<"/load", "\n", "x", " ", "y">>,
          <<"/clear", " ", "x">>,
          <<"/Help">>, <<"/bogus">>, <<"/save", "d">>, <<"/", " ", "help">>,
          <<"/HELP", " ", "x">>}

\* Every order in which the entries of a directory can be enumerated
Orders(S) ==
    {o \in [1..Cardinality(S) -> S] : \A i, j \in 1..Cardinality(S) : i # j => o[i] # o[j]}

\* What parseFileContent gives for one matched file: the text of its code
\* block, "" for a block without content, "ERR" when it throws
FileOutcomes == {"F1", "F2", "", "ERR"}

Matches == UNION {[1..n -> FileOutcomes] : n \in 0..MaxMatched}

EmptyDisk == [p \in {} |-> [text |-> EmptyText, mtime |-> 0]]

OldText ==
    [kind |-> "json", model |-> "claude-3",
     messages |-> <<[type |-> "system", content |-> <<"old rules">>],
                    [type |-> "tool", content |-> <<"result">>]>>,
     timestamp |-> toISOString(1)]

\* A session left by an earlier run beside a file that is no session
OldDisk ==
    (sessionPath(<<"x">>) :> [text |-> OldText, mtime |-> 1])
    @@ (entryPath(<<"notes", ".txt">>) :> [text |-> GarbageText, mtime |-> 2])

\* Session files damaged outside the program: one is not JSON, one is empty
BrokenDisk ==
    (sessionPath(<<"x">>) :> [text |-> GarbageText, mtime |-> 1])
    @@ (sessionPath(<<"e">>) :> [text |-> EmptyText, mtime |-> 1])

InitDisks ==
    {[dirExists |-> FALSE, fs |-> EmptyDisk],
     [dirExists |-> TRUE, fs |-> OldDisk],
     [dirExists |-> TRUE, fs |-> BrokenDisk]}

\* The conversation so far: the process starts with any prefix of it
Transcript ==
    <<NewMessage("SystemMessage", <<"be brief">>), NewMessage("HumanMessage", <<"hi">>),
      NewMessage("SystemMessage", <<"be kind">>), NewMessage("AIMessage", <<"hello">>),
      NewMessage("ChatMessage", <<"note">>), NewMessage("HumanMessage", <<"bye">>),
      NewMessage("AIMessage", <<"ciao">>)>>

InitHistories == {SubSeq(Transcript, 1, n) : n \in 0..MaxInitLen}

NoCommand == [error |-> "", command |-> "", withPath |-> FALSE, path |-> <<>>]

\* What a turn met: `fault` the system call that failed ("none" when none
\* did), `file` the file a store operation wrote, read or removed (<<>> when
\* none), `matched` and `generatorThrows` what the File Loader gave
IO(fault, file) ==
    [fault |-> fault, file |-> file, matched |-> <<>>, generatorThrows |-> FALSE]

NoIO == IO("none", <<>>)

Init ==
    /\ messages \in InitHistories
    /\ paramsModel = "gpt-4"
    /\ modelStack = {}
    /\ \E d \in InitDisks : dirExists = d.dirExists /\ fs = d.fs
    /\ now = 2
    /\ pc = "prompt"
    /\ lastCmd = NoCommand
    /\ outcome = "none"
    /\ autosaved = FALSE
    /\ picked = <<>>
    /\ listing = <<>>
    /\ turns = 0
    /\ io = NoIO
    /\ arg = <<>>
    /\ ret = <<>>

Observe(cmd, out, saved, path, names, met) ==
    /\ lastCmd' = cmd
    /\ outcome' = out
    /\ autosaved' = saved
    /\ picked' = path
    /\ listing' = names
    /\ turns' = turns + 1
    /\ io' = met
    /\ UNCHANGED <<arg, ret>>

\* Time passes while the process waits for input
Tick ==
    /\ pc = "prompt"
    /\ now < MaxTime
    /\ now' = now + 1
    /\ UNCHANGED <<messages, paramsModel, modelStack, dirExists, fs, pc,
                   lastCmd, outcome, autosaved, picked, listing, turns, io, arg, ret>>

(***************************************************************************)
(* Command Dispatcher (command.ts:106-244).  One action per path through   *)
(* handleSlashCommand; each takes the turn from the input to the return.   *)
(***************************************************************************)
\* The process is at its prompt and reads one more input
Reads(input) ==
    /\ pc = "prompt"
    /\ turns < MaxTurns
    /\ input \in Inputs

\* handleSlashCommand is called with what newSlashCommand returned
Dispatches(input, tags) ==
    /\ Reads(input)
    /\ newSlashCommand(input).error = ""
    /\ newSlashCommand(input).command \in tags

\* command.ts:77-79: newSlashCommand throws, nothing is dispatched
InvalidCommand(input) ==
    /\ Reads(input)
    /\ newSlashCommand(input).error # ""
    /\ Observe(newSlashCommand(input), "invalid", FALSE, <<>>, <<>>, NoIO)
    /\ UNCHANGED <<messages, paramsModel, modelStack, dirExists, fs, now, pc>>

WriteFaults == {"none", "ensureDir", "writeTextFile"}

\* the autosave block without its try/catch: a failed autosave ends the turn
AutoSaveReturn_propagates(cmd, fault, names) ==
    LET r == autoSave(messages, paramsModel, now, fault) IN
    /\ Cardinality(DOMAIN r.fs) <= MaxFiles
    /\ fs' = r.fs
    /\ dirExists' = r.dirExists
    /\ Observe(cmd, IF r.threw THEN "threw" ELSE "returned", TRUE, <<>>, names,
               IO(fault, IF r.threw THEN <<>> ELSE sessionPath(autoSaveName(now))))
    /\ UNCHANGED <<messages, paramsModel, modelStack, now, pc>>

\* command.ts:234-243: the autosave block and the return after it
AutoSaveReturn(cmd, fault, names) ==
    LET r == autoSave(messages, paramsModel, now, fault) IN
    /\ Cardinality(DOMAIN r.fs) <= MaxFiles
    /\ fs' = r.fs
    /\ dirExists' = r.dirExists
    /\ Observe(cmd, "returned", TRUE, <<>>, names,
               IO(fault, IF r.threw THEN <<>> ELSE sessionPath(autoSaveName(now))))
    /\ UNCHANGED <<messages, paramsModel, modelStack, now, pc>>

\* the loop with its try/catch around it: the first failing file ends it
RECURSIVE attach_stopsAtError(_, _, _)
attach_stopsAtError(matched, fileCount, allContent) ==
    IF matched = <<>> \/ Head(matched) = "ERR"
    THEN [fileCount |-> fileCount, allContent |-> allContent]
    ELSE IF Head(matched) = ""
         THEN attach_stopsAtError(Tail(matched), fileCount, allContent)
         ELSE attach_stopsAtError(Tail(matched), fileCount + 1,
                                  allContent \o <<Head(matched), "\n", "\n">>)

\* command.ts:123-140: the loop over the matched files
RECURSIVE attach(_, _, _)
attach(matched, fileCount, allContent) ==
    IF matched = <<>> THEN [fileCount |-> fileCount, allContent |-> allContent]
    ELSE IF Head(matched) \in {"", "ERR"}
         THEN attach(Tail(matched), fileCount, allContent)
         ELSE attach(Tail(matched), fileCount + 1,
                     allContent \o <<Head(matched), "\n", "\n">>)

Count == <<"0", "1", "2", "3", "4">>

\* command.ts:144-146
fileMessage(fileCount, allContent) ==
    NewMessage("HumanMessage",
        <<"Here are the file(s) I'm attaching (", Count[fileCount + 1], " file(s)):\n">>
        \o trim(allContent))

\* command.ts:115-162.  generatorThrows: filesGenerator throws after the
\* matched files, which the outer catch reports.
FileCommand(input) ==
    LET cmd == newSlashCommand(input) IN
    /\ Dispatches(input, {Command.File})
    /\ cmd.withPath
    /\ Len(messages) < MaxHistory
    /\ \E matched \in Matches, generatorThrows \in BOOLEAN :
        LET a == attach(matched, 0, <<>>) IN
        /\ messages' = IF ~generatorThrows /\ a.fileCount > 0
                       THEN Append(messages, fileMessage(a.fileCount, a.allContent))
                       ELSE messages
        /\ Observe(cmd, "returned", FALSE, <<>>, <<>>,
                   [NoIO EXCEPT !.matched = matched, !.generatorThrows = generatorThrows])
    /\ UNCHANGED <<paramsModel, modelStack, dirExists, fs, now, pc>>

\* command.ts:164-168
SaveCommand(input) ==
    LET cmd == newSlashCommand(input) IN
    /\ Dispatches(input, {Command.Save})
    /\ cmd.withPath
    /\ \E fault \in WriteFaults :
        LET r == saveSession(cmd.path, messages, paramsModel, now, fault) IN
        /\ Cardinality(DOMAIN r.fs) <= MaxFiles
        /\ fs' = r.fs
        /\ dirExists' = r.dirExists
        /\ Observe(cmd, IF r.threw THEN "threw" ELSE "returned", FALSE, <<>>, <<>>,
                   IO(fault, IF r.threw THEN <<>> ELSE realPath(sessionPath(cmd.path))))
    /\ UNCHANGED <<messages, paramsModel, modelStack, now, pc>>

\* the Load branch without the assignment to params.model
LoadCommand_keepsModel(input) ==
    LET cmd == newSlashCommand(input) IN
    /\ Dispatches(input, {Command.Load})
    /\ cmd.withPath
    /\ \E fault \in {"none", "readTextFile"} :
        LET r == loadSession(cmd.path, fault) IN
        IF r.threw
        THEN /\ Observe(cmd, "threw", FALSE, <<>>, <<>>, IO(fault, <<>>))
             /\ UNCHANGED <<messages, paramsModel, modelStack>>
        ELSE /\ modelStack' = modelStack \cup {r.model}
             /\ paramsModel' = paramsModel
             /\ messages' = r.messages
             /\ Observe(cmd, "returned", FALSE, <<>>, <<>>, IO(fault, realPath(sessionPath(cmd.path))))
    /\ UNCHANGED <<dirExists, fs, now, pc>>

\* command.ts:170-176
LoadCommand(input) ==
    LET cmd == newSlashCommand(input) IN
    /\ Dispatches(input, {Command.Load})
    /\ cmd.withPath
    /\ \E fault \in {"none", "readTextFile"} :
        LET r == loadSession(cmd.path, fault) IN
        IF r.threw
        THEN /\ Observe(cmd, "threw", FALSE, <<>>, <<>>, IO(fault, <<>>))
             /\ UNCHANGED <<messages, paramsModel, modelStack>>
        ELSE /\ modelStack' = modelStack \cup {r.model}
             /\ paramsModel' = r.model
             /\ messages' = r.messages
             /\ Observe(cmd, "returned", FALSE, <<>>, <<>>, IO(fault, realPath(sessionPath(cmd.path))))
    /\ UNCHANGED <<dirExists, fs, now, pc>>

\* command.ts:178-182
DeleteCommand(input) ==
    LET cmd == newSlashCommand(input) IN
    /\ Dispatches(input, {Command.Delete})
    /\ cmd.withPath
    /\ \E fault \in {"none", "remove"} :
        LET r == deleteSession(cmd.path, fault) IN
        /\ fs' = r.fs
        /\ Observe(cmd, IF r.threw THEN "threw" ELSE "returned", FALSE, <<>>, <<>>,
                   IO(fault, IF r.threw THEN <<>> ELSE realPath(sessionPath(cmd.path))))
    /\ UNCHANGED <<messages, paramsModel, modelStack, dirExists, now, pc>>

\* the switch with the break of case Help missing: Help runs into case Clear
PrintCommand_fallsThrough(input) ==
    /\ Dispatches(input, {Command.Help, Command.ModelStack})
    /\ IF newSlashCommand(input).command = Command.Help
       THEN /\ messages' = SelectSeq(messages, LAMBDA m : instanceof(m, "SystemMessage"))
            /\ Observe(newSlashCommand(input), "returned", FALSE, <<>>, <<>>, NoIO)
            /\ UNCHANGED <<paramsModel, modelStack, dirExists, fs, now, pc>>
       ELSE \E fault \in WriteFaults : AutoSaveReturn(newSlashCommand(input), fault, <<>>)

\* command.ts:190-193, 204-207: Help and ModelStack print and break
PrintCommand(input) ==
    /\ Dispatches(input, {Command.Help, Command.ModelStack})
    /\ \E fault \in WriteFaults : AutoSaveReturn(newSlashCommand(input), fault, <<>>)

\* a dispatcher that runs the command with the missing argument: the template
\* literal turns the undefined name into "undefined"
BareCommand_undefinedName(input) ==
    LET cmd == newSlashCommand(input)
        r == saveSession(<<"undefined">>, messages, paramsModel, now, "none")
    IN  /\ Dispatches(input, PathCommands)
        /\ ~cmd.withPath
        /\ Cardinality(DOMAIN r.fs) <= MaxFiles
        /\ fs' = r.fs
        /\ dirExists' = r.dirExists
        /\ Observe(cmd, IF r.threw THEN "threw" ELSE "returned", FALSE, <<>>, <<>>,
                   IO("none", IF r.threw THEN <<>> ELSE sessionPath(<<"undefined">>)))
        /\ UNCHANGED <<messages, paramsModel, modelStack, now, pc>>

\* command.ts:184-189: File, Save, Load or Delete without an argument is a
\* bare tag, which no case of the switch handles
BareCommand(input) ==
    /\ Dispatches(input, PathCommands)
    /\ ~newSlashCommand(input).withPath
    /\ \E fault \in WriteFaults : AutoSaveReturn(newSlashCommand(input), fault, <<>>)

\* command.ts:194-202
ClearCommand(input) ==
    /\ Dispatches(input, {Command.Clear})
    /\ messages' = SelectSeq(messages, LAMBDA m : instanceof(m, "SystemMessage"))
    /\ Observe(newSlashCommand(input), "returned", FALSE, <<>>, <<>>, NoIO)
    /\ UNCHANGED <<paramsModel, modelStack, dirExists, fs, now, pc>>

\* command.ts:208-213
SessionsCommand(input) ==
    /\ Dispatches(input, {Command.Sessions})
    /\ \E order \in Orders(readDir(fs)), fault \in WriteFaults \cup {"readDir"} :
        AutoSaveReturn(newSlashCommand(input), fault, listSessions(order, fault))

\* command.ts:215-228
ResumeLatestCommand(input) ==
    LET cmd == newSlashCommand(input) IN
    /\ Dispatches(input, {Command.ResumeLatest})
    /\ \E order \in Orders(readDir(fs)),
          fault \in {"none", "readDir", "stat", "readTextFile"} :
        LET r == resumeLatestSession(order, fault) IN
        IF r.found /\ r.content.kind # "empty"
        THEN IF JSONparseThrows(r.content)
             THEN /\ Observe(cmd, "threw", FALSE, r.path, <<>>, IO(fault, r.path))
                  /\ UNCHANGED <<messages, paramsModel, modelStack>>
             ELSE LET restored == JSONparse(r.content) IN
                  /\ modelStack' = modelStack \cup {restored.model}
                  /\ paramsModel' = restored.model
                  /\ messages' = restored.messages
                  /\ Observe(cmd, "returned", FALSE, r.path, <<>>, IO(fault, r.path))
        ELSE /\ Observe(cmd, "returned", FALSE, r.path, <<>>,
                        IO(fault, IF r.found THEN r.path ELSE <<>>))
             /\ UNCHANGED <<messages, paramsModel, modelStack>>
    /\ UNCHANGED <<dirExists, fs, now, pc>>

\* command.ts:229-231
ByeCommand(input) ==
    /\ Dispatches(input, {Command.Bye})
    /\ pc' = "exited"
    /\ Observe(newSlashCommand(input), "exited", FALSE, <<>>, <<>>, NoIO)
    /\ UNCHANGED <<messages, paramsModel, modelStack, dirExists, fs, now>>

Next ==
    \/ Tick
    \/ \E input \in Inputs : InvalidCommand(input)
    \/ \E input \in Inputs : FileCommand(input)
    \/ \E input \in Inputs : SaveCommand(input)
    \/ \E input \in Inputs : LoadCommand(input)
    \/ \E input \in Inputs : DeleteCommand(input)
    \/ \E input \in Inputs : PrintCommand(input)
    \/ \E input \in Inputs : BareCommand(input)
    \/ \E input \in Inputs : ClearCommand(input)
    \/ \E input \in Inputs : SessionsCommand(input)
    \/ \E input \in Inputs : ResumeLatestCommand(input)
    \/ \E input \in Inputs : ByeCommand(input)

Spec == Init /\ [][Next]_vars

(***************************************************************************)
(* Functions the chat loop applies outside a command turn.  Each has a     *)
(* specification of its own: Init draws the arguments, the one action      *)
(* applies the function and keeps what it returned.  The dispatcher's      *)
(* state takes no part in them.                                            *)
(***************************************************************************)
dispatcher == <<paramsModel, modelStack, dirExists, fs, now, lastCmd, outcome,
                autosaved, picked, listing, turns, io>>

Idle ==
    /\ paramsModel = "gpt-4"
    /\ modelStack = {}
    /\ dirExists = FALSE
    /\ fs = EmptyDisk
    /\ now = 2
    /\ lastCmd = NoCommand
    /\ outcome = "none"
    /\ autosaved = FALSE
    /\ picked = <<>>
    /\ listing = <<>>
    /\ turns = 0
    /\ io = NoIO

(***************************************************************************)
(* The Command Classifier on command lines of one to MaxTokens tokens.     *)
(***************************************************************************)
\* What follows the command token on a command line
Words == {<<"x">>, <<"a", ".json", "b">>, <<"..", "/", "x">>, <<"*.ts">>, <<"/save">>}

\* The white space between two tokens, and before and after the line
Gaps == {<<" ">>, <<"\t", " ">>, <<"\n">>}
Margins == {<<>>, <<" ", "\n">>}

TokenLists ==
    {<<c>> \o rest : c \in DOMAIN commandMap,
                     rest \in UNION {[1..n -> Words] : n \in 0..(MaxTokens - 1)}}

\* The line the user typed: the tokens with `gap` between them
RECURSIVE join(_, _)
join(tokens, gap) ==
    IF Len(tokens) = 1 THEN tokens[1]
    ELSE tokens[1] \o gap \o join(Tail(tokens), gap)

ClassifierInit ==
    /\ Idle
    /\ pc = "call"
    /\ messages = <<>>
    /\ \E tokens \in TokenLists, gap \in Gaps, lead \in Margins, trail \in Margins :
          arg = [tokens |-> tokens, input |-> lead \o join(tokens, gap) \o trail]
    /\ ret = <<>>

Classify ==
    /\ pc = "call"
    /\ ret' = newSlashCommand(arg.input)
    /\ pc' = "done"
    /\ UNCHANGED <<messages, arg>>
    /\ UNCHANGED dispatcher

ClassifierNext == Classify

ClassifierSpec == ClassifierInit /\ [][ClassifierNext]_vars

(***************************************************************************)
(* At-mention (command.ts:98-104, 246-288).                                *)
(***************************************************************************)
\* The longest run of atoms that are not white space at the start of s
RECURSIVE nonSpaceRun(_)
nonSpaceRun(s) ==
    IF s = <<>> \/ Head(s) \in WhiteSpace THEN <<>>
    ELSE <<Head(s)>> \o nonSpaceRun(Tail(s))

\* input.match(/^@[^\s\n\t]+/): <<>> for null, else the matched text match[0]
atMatch(input) ==
    IF input # <<>> /\ Head(input) = "@" /\ nonSpaceRun(Tail(input)) # <<>>
    THEN <<"@">> \o nonSpaceRun(Tail(input))
    ELSE <<>>

\* command.ts:98-104
extractAtModel(input) ==
    LET match == atMatch(input) IN
    [model |-> IF match # <<>> THEN Tail(match) ELSE <<>>,
     message |-> IF match # <<>>
                 THEN trim(SubSeq(input, Len(match) + 1, Len(input)))
                 ELSE input]

\* command.ts:247-256
isAtCommand(humanMessage) ==
    /\ instanceof(humanMessage, "HumanMessage")
    /\ humanMessage.content # <<>>
    /\ Head(humanMessage.content) = "@"

\* command.ts:258-265, index = -2; <<>> stands for null (both are falsy)
getMessageFromHistory(msgs, index) ==
    IF Len(msgs) > -index THEN msgs[Len(msgs) + index].content ELSE <<>>

\* command.ts:267-288
handleAtCommand(humanMessage, msgs, model) ==
    IF ~isAtCommand(humanMessage)
    THEN [message |-> humanMessage.content, model |-> model]
    ELSE LET extracted == extractAtModel(humanMessage.content)
             fromHistory == getMessageFromHistory(msgs, -2)
         IN  [message |-> IF extracted.message # <<>> THEN extracted.message
                          ELSE fromHistory,
              model |-> IF extracted.model # <<>> THEN extracted.model ELSE model]

\* What the user types at the chat prompt
AtContents ==
    {<<"@", "claude-3">>, <<"@", "claude-3", " ", "\n">>,
     <<"@", "claude-3", " ", "hello">>, <<"@", "o1", "-", "mini", "\t", "hello", " ", "you">>,
     <<"plain", " ", "text">>, <<"@">>, <<"@", " ", "hi">>, <<" ", "@", "claude-3">>}

AtMessages ==
    {NewMessage("HumanMessage", <<"earlier question">>),
     NewMessage("AIMessage", <<"answer">>),
     NewMessage("SystemMessage", <<"be brief">>),
     NewMessage("HumanMessage", <<"later question">>)}

AtHistories == UNION {[1..n -> AtMessages] : n \in 0..MaxAtLen}

AtInit ==
    /\ Idle
    /\ pc = "call"
    /\ messages \in AtHistories
    /\ arg \in [humanMessage : {NewMessage(cls, c) : cls \in {"HumanMessage", "AIMessage"},
                                                      c \in AtContents},
                 model : {<<"gpt-4">>}]
    /\ ret = <<>>

HandleAtCommand ==
    /\ pc = "call"
    /\ ret' = handleAtCommand(arg.humanMessage, messages, arg.model)
    /\ pc' = "done"
    /\ UNCHANGED <<messages, arg>>
    /\ UNCHANGED dispatcher

AtNext == HandleAtCommand

AtSpec == AtInit /\ [][AtNext]_vars

(***************************************************************************)
(* Model Resolver (model.ts:111-118).  A model identifier is text whose    *)
(* atoms are single characters.  A key of modelMap is a regular expression *)
(* anchored at the start: the sequence of the character sets it asks for.  *)
(***************************************************************************)
Digits == {"0", "1", "2", "3", "4", "5", "6", "7", "8", "9"}

\* modelMap with "^gem" cut down to "^g"
modelMap_shortGem ==
    <<[key |-> <<{"g"}, {"p"}, {"t"}>>, create |-> "createOpenAIInstance"],
      [key |-> <<{"o"}, Digits>>, create |-> "createOpenAIOModelInstance"],
      [key |-> <<{"c"}, {"l"}, {"a"}, {"u"}, {"d"}, {"e"}>>, create |-> "createAnthropicInstance"],
      [key |-> <<{"g"}>>, create |-> "createGoogleGenerativeAIInstance"],
      [key |-> <<{"g"}, {"r"}, {"o"}, {"k"}>>, create |-> "createXAIInstance"],
      [key |-> <<{"a"}, {"z"}, {"u"}, {"r"}, {"e"}>>, create |-> "createAzureOpenAIInstance"]>>

\* model.ts:111-118, in the order of the keys
modelMap ==
    <<[key |-> <<{"g"}, {"p"}, {"t"}>>, create |-> "createOpenAIInstance"],
      [key |-> <<{"o"}, Digits>>, create |-> "createOpenAIOModelInstance"],
      [key |-> <<{"c"}, {"l"}, {"a"}, {"u"}, {"d"}, {"e"}>>, create |-> "createAnthropicInstance"],
      [key |-> <<{"g"}, {"e"}, {"m"}>>, create |-> "createGoogleGenerativeAIInstance"],
      [key |-> <<{"g"}, {"r"}, {"o"}, {"k"}>>, create |-> "createXAIInstance"],
      [key |-> <<{"a"}, {"z"}, {"u"}, {"r"}, {"e"}>>, create |-> "createAzureOpenAIInstance"]>>

\* The regular expression `key` matches the identifier
matches(key, identifier) ==
    /\ Len(identifier) >= Len(key)
    /\ \A i \in 1..Len(key) : identifier[i] \in key[i]

\* The strategy of the first rule of `table` whose key matches, "none" when
\* no key does
RECURSIVE firstMatch(_, _)
firstMatch(table, identifier) ==
    IF table = <<>> THEN "none"
    ELSE IF matches(Head(table).key, identifier) THEN Head(table).create
         ELSE firstMatch(Tail(table), identifier)

\* The pieces model identifiers are made of
Pieces ==
    {<<"g", "p", "t">>, <<"o">>, <<"1">>, <<"c", "l", "a", "u", "d", "e">>, <<"g", "e", "m">>,
     <<"g", "r", "o", "k">>, <<"a", "z", "u", "r", "e">>, <<"-">>, <<"G", "P", "T">>,
     <<"l", "l", "a", "m", "a">>}

RECURSIVE concat(_)
concat(pieces) == IF pieces = <<>> THEN <<>> ELSE Head(pieces) \o concat(Tail(pieces))

Identifiers == {concat(ps) : ps \in UNION {[1..n -> Pieces] : n \in 0..MaxPieces}}

ResolverInit ==
    /\ Idle
    /\ pc = "call"
    /\ messages = <<>>
    /\ arg \in Identifiers
    /\ ret = <<>>

Resolve ==
    /\ pc = "call"
    /\ ret' = firstMatch(modelMap, arg)
    /\ pc' = "done"
    /\ UNCHANGED <<messages, arg>>
    /\ UNCHANGED dispatcher

ResolverNext == Resolve

ResolverSpec == ResolverInit /\ [][ResolverNext]_vars

(***************************************************************************)
(* Properties.                                                             *)
(***************************************************************************)
Range(seq) == {seq[i] : i \in 1..Len(seq)}

\* The step is a turn that dispatched one of the commands `tags`
Turn(tags) == turns' = turns + 1 /\ lastCmd'.error = "" /\ lastCmd'.command \in tags

\* The role a stored or in-memory entry is tagged with, and the role it has
\* after role normalization (an unknown tag becomes human)
KnownRoles == {"system", "human", "ai"}
normalRole(type) == IF type \in KnownRoles THEN type ELSE "human"

\* The session files of SESSION_DIR
SessionFiles == {entryPath(n) : n \in {e \in readDir(fs) : endsWith(e, ".json")}}

\* The name under which /load would read the file at `path`
nameOf(path) == SubSeq(entryName(path), 1, Len(entryName(path)) - 1)

\* What marks an input as a slash command that is not a command: its first
\* token starts with "/" and is none of the 13 command tokens
SlashAtoms ==
    {"/help", "/?", "/clear", "/modelStack", "/bye", "/exit", "/quit", "/file", "/save",
     "/load", "/sessions", "/delete", "/resume-latest", "/Help", "/bogus", "/", "/HELP"}

CommandTokens ==
    {<<"/help">>, <<"/?">>, <<"/clear">>, <<"/modelStack">>, <<"/bye">>, <<"/exit">>,
     <<"/quit">>, <<"/file">>, <<"/save">>, <<"/load">>, <<"/sessions">>, <<"/delete">>,
     <<"/resume-latest">>}

firstToken(input) == split(trim(input))[1]

Unrecognized(input) ==
    /\ firstToken(input) # <<>>
    /\ firstToken(input)[1] \in SlashAtoms
    /\ firstToken(input) \notin CommandTokens

\* resumeLatestSession, whatever the enumeration order, reads a session file
\* of greatest modification time, and finds none only when there is none
LatestIsGreatest ==
    \A order \in Orders(readDir(fs)) :
        LET r == resumeLatestSession(order, "none") IN
        IF ~dirExists \/ SessionFiles = {}
        THEN ~r.found
        ELSE /\ r.found
             /\ r.path \in SessionFiles
             /\ r.content = fs[r.path].text
             /\ \A q \in SessionFiles : fs[q].mtime <= fs[r.path].mtime

\* C1: after every command other than Bye that handleSlashCommand returns
\* from, an autosave was attempted before the return.
C1_AutosaveBeforeEveryReturn ==
    outcome = "returned" => autosaved

\* C2: once saveSession(name, H, M) has written the session, loadSession(name)
\* returns model M and a history of the same length as H with the same
\* contents in the same order, each system, human and ai message with its
\* role and every other message as a human message.
C2_SaveLoadRoundTrip ==
    (lastCmd.command = Command.Save /\ lastCmd.withPath /\ outcome = "returned") =>
        LET r == loadSession(lastCmd.path, "none") IN
        /\ ~r.threw
        /\ r.model = paramsModel
        /\ Len(r.messages) = Len(messages)
        /\ \A i \in 1..Len(messages) :
            /\ r.messages[i].content = messages[i].content
            /\ r.messages[i].cls =
                  IF messages[i].cls \in {"SystemMessage", "HumanMessage", "AIMessage"}
                  THEN messages[i].cls
                  ELSE "HumanMessage"

C2_Witness ==
    /\ lastCmd.command = Command.Save /\ lastCmd.withPath /\ outcome = "returned"
    /\ \E i, j, k \in 1..Len(messages) :
        /\ messages[i].cls = "ChatMessage"
        /\ messages[j].cls = "SystemMessage"
        /\ messages[k].cls = "AIMessage"

\* C3: Clear returns exactly the entries whose role is system, in their
\* order, for every history the commands can produce, and a second Clear
\* returns the same history.
C3_ClearKeepsSystemEntries ==
    [][Turn({Command.Clear}) =>
          /\ messages' = SelectSeq(messages, LAMBDA m : m.type = "system")
          /\ SelectSeq(messages', LAMBDA m : instanceof(m, "SystemMessage")) = messages'
      ]_vars

\* C4: a Load that succeeds returns the history stored in the session file
\* (its entries and nothing else), makes the stored model the default model
\* and a member of ModelStack.
C4_LoadReplaces ==
    (lastCmd.command = Command.Load /\ lastCmd.withPath /\ outcome = "returned") =>
        LET stored == fs[realPath(sessionPath(lastCmd.path))].text IN
        /\ paramsModel = stored.model
        /\ stored.model \in modelStack
        /\ Len(messages) = Len(stored.messages)
        /\ \A i \in 1..Len(messages) :
            /\ messages[i].content = stored.messages[i].content
            /\ messages[i].cls \in MessageClasses
            /\ messages[i].type = normalRole(stored.messages[i].type)

C4_Witness ==
    /\ lastCmd.command = Command.Load /\ lastCmd.withPath /\ outcome = "returned"
    /\ paramsModel = "claude-3"
    /\ Len(messages) = 2

\* C5: the history ResumeLatest returns for a session file is the history
\* Load returns for that file, the default model is the stored model and the
\* stored model is in ModelStack.
C5_ResumeEqualsLoad ==
    (/\ lastCmd.command = Command.ResumeLatest
     /\ outcome = "returned"
     /\ picked \in DOMAIN fs
     /\ fs[picked].text.kind = "json") =>
        LET r == loadSession(nameOf(picked), "none") IN
        /\ messages = r.messages
        /\ paramsModel = r.model
        /\ r.model \in modelStack

\* C6: an input whose first token starts with "/" and is none of the 13
\* command tokens makes newSlashCommand throw, and the turn that read it
\* dispatches nothing: history, default model, ModelStack and the disk stay
\* as they were.
C6_UnknownCommandFails ==
    [][(turns' = turns + 1 /\ lastCmd'.error # "") =>
          /\ \A input \in Inputs :
                Unrecognized(input) => newSlashCommand(input).error # ""
          /\ outcome' = "invalid"
          /\ UNCHANGED <<messages, paramsModel, modelStack, fs, dirExists, pc>>
      ]_vars

C6_Witness ==
    /\ outcome = "invalid"
    /\ lastCmd.error # ""
    /\ messages # <<>>
    /\ \E input \in Inputs : Unrecognized(input) /\ Len(firstToken(input)) > 1

\* C7: a Load or Delete whose session file is missing (or, for Load, is not
\* valid JSON), or that fails for any other reason, throws to the caller and
\* leaves history, default model, ModelStack and every file as they were.
C7_FailedLoadDeleteChangesNothing ==
    [][(Turn({Command.Load, Command.Delete}) /\ lastCmd'.withPath) =>
          /\ (realPath(sessionPath(lastCmd'.path)) \notin DOMAIN fs) => outcome' = "threw"
          /\ (/\ lastCmd'.command = Command.Load
              /\ realPath(sessionPath(lastCmd'.path)) \in DOMAIN fs
              /\ fs[realPath(sessionPath(lastCmd'.path))].text.kind # "json")
                => outcome' = "threw"
          /\ outcome' = "threw" =>
                UNCHANGED <<messages, paramsModel, modelStack, fs, dirExists, pc>>
      ]_vars

C7_Witness ==
    /\ outcome = "threw"
    /\ lastCmd.command = Command.Load
    /\ sessionPath(lastCmd.path) \in DOMAIN fs
    /\ fs[sessionPath(lastCmd.path)].text.kind = "garbage"
    /\ messages # <<>>

\* C8: Sessions and ResumeLatest never throw to the caller, whatever fails
\* while the session directory is read.
C8_BestEffortNeverThrows ==
    lastCmd.command \in {Command.Sessions, Command.ResumeLatest} => outcome # "threw"

\* C9: for every enumeration order resumeLatestSession returns the content
\* of a session file whose modification time is the greatest of all session
\* files, and none when there is no session file; ResumeLatest then returns
\* the history unchanged.
C9_ResumePicksLatest ==
    [][Turn({Command.ResumeLatest}) =>
          /\ LatestIsGreatest
          /\ SessionFiles = {} =>
                /\ outcome' = "returned"
                /\ picked' = <<>>
                /\ UNCHANGED <<messages, paramsModel, modelStack>>
          /\ picked' # <<>> =>
                /\ picked' \in SessionFiles
                /\ \A q \in SessionFiles : fs[q].mtime <= fs[picked'].mtime
      ]_vars

C9_Witness ==
    /\ lastCmd.command = Command.ResumeLatest
    /\ outcome = "returned"
    /\ picked \in SessionFiles
    /\ \E q \in SessionFiles : fs[q].mtime < fs[picked].mtime
    /\ messages = JSONparse(fs[picked].text).messages

\* C10: listSessions contains a name exactly when its session file exists
\* (the last operation on the name was a save, not a delete), under the name
\* that was given to save.
C10_ListReportsSavedNames ==
    \A order \in Orders(readDir(fs)) :
        /\ \A name \in ArgTokens :
              (name \in Range(listSessions(order, "none")))
                  <=> (sessionPath(name) \in DOMAIN fs)
        /\ (lastCmd.command = Command.Delete /\ lastCmd.withPath /\ outcome = "returned")
              => lastCmd.path \notin Range(listSessions(order, "none"))

\* The chat input is "@<identifier>" and nothing else but white space
OnlyAtIdentifier(humanMessage) ==
    /\ isAtCommand(humanMessage)
    /\ extractAtModel(humanMessage.content).model # <<>>
    /\ extractAtModel(humanMessage.content).message = <<>>

\* The human entries of msgs from its second-to-last entry backward
EarlierHuman(msgs) == {i \in 1..(Len(msgs) - 1) : msgs[i].type = "human"}

C12_ArgumentIsSecondToken ==
    pc = "done" =>
        LET tokens == arg.tokens
            tag == commandMap[tokens[1]]
            carries == /\ tag \in {Command.File, Command.Save, Command.Load, Command.Delete}
                       /\ Len(tokens) >= 2
        IN  /\ ret.error = ""
            /\ ret.command = tag
            /\ ret.withPath <=> carries
            /\ ret.withPath => ret.path = tokens[2]
            /\ Len(tokens) > 2 => ret = newSlashCommand(join(SubSeq(tokens, 1, 2), <<" ">>))
            /\ tag \in {Command.Help, Command.Clear, Command.ModelStack, Command.Bye,
                         Command.Sessions, Command.ResumeLatest}
                   => ret = [NoCommand EXCEPT !.command = tag]

C12_Witness ==
    /\ pc = "done"
    /\ Len(arg.tokens) = 3
    /\ arg.tokens[2] = <<"..", "/", "x">>
    /\ arg.tokens[3] = <<"/save">>
    /\ Head(arg.input) = " "
    /\ ret.command = Command.Delete
    /\ ret.path = arg.tokens[2]

\* The step is a turn whose autosave failed
AutoSaveFails ==
    /\ turns' = turns + 1
    /\ autosaved'
    /\ io'.fault \in {"ensureDir", "writeTextFile"}

\* C13: when the autosave step fails (the session directory cannot be created
\* or the file cannot be written), handleSlashCommand still returns, nothing
\* is thrown to the caller, no file is written, and history, default model
\* and ModelStack are what a successful autosave would have left.
C13_AutosaveFailureIsCaught ==
    [][AutoSaveFails =>
          /\ outcome' = "returned"
          /\ pc' = "prompt"
          /\ messages' = autoSave(messages, paramsModel, now, "none").messages
          /\ paramsModel' = autoSave(messages, paramsModel, now, "none").model
          /\ UNCHANGED <<messages, paramsModel, modelStack, fs>>
      ]_vars

C13_Witness ==
    /\ autosaved
    /\ io.fault = "writeTextFile"
    /\ lastCmd.command = Command.Sessions
    /\ outcome = "returned"
    /\ listing # <<>>
    /\ messages # <<>>

\* The contents, in order, of the matched files that were read and are not empty
ReadFiles(matched) == SelectSeq(matched, LAMBDA c : c \notin {"", "ERR"})

\* The contents with an empty line between them
RECURSIVE Between(_)
Between(contents) ==
    IF Len(contents) = 1 THEN <<contents[1]>>
    ELSE <<contents[1], "\n", "\n">> \o Between(Tail(contents))

\* C14: the File command never fails; when the pattern's files f1..fn were
\* enumerated, each is processed whatever became of the earlier ones: if some
\* file gave content that is not empty, one human message is appended that
\* holds exactly those contents in enumeration order, and the earlier entries
\* stay; if none did (no match, every read failing or empty), the history is
\* unchanged.
C14_FileAttachesWhatWasRead ==
    [][(Turn({Command.File}) /\ lastCmd'.withPath) =>
          /\ outcome' = "returned"
          /\ ~io'.generatorThrows =>
                LET read == ReadFiles(io'.matched) IN
                IF read = <<>>
                THEN messages' = messages
                ELSE /\ Len(messages') = Len(messages) + 1
                     /\ SubSeq(messages', 1, Len(messages)) = messages
                     /\ messages'[Len(messages')].cls = "HumanMessage"
                     /\ messages'[Len(messages')].type = "human"
                     /\ messages'[Len(messages')].content =
                           <<"Here are the file(s) I'm attaching (", Count[Len(read) + 1],
                             " file(s)):\n">> \o Between(read)
      ]_vars

C14_Witness ==
    /\ lastCmd.command = Command.File
    /\ lastCmd.withPath
    /\ outcome = "returned"
    /\ io.matched = <<"ERR", "F2">>
    /\ ~io.generatorThrows
    /\ Len(messages) > 1
    /\ messages[Len(messages)].content[Len(messages[Len(messages)].content)] = "F2"

\* The file lies in the session directory or in a directory below it
InSessionDir(path) ==
    /\ Len(path) > Len(SESSION_DIR) + 1
    /\ SubSeq(path, 1, Len(SESSION_DIR) + 1) = SESSION_DIR \o <<"/">>

\* C15: whatever name Save, Load or Delete is given, the file it writes,
\* reads or removes lies inside the session directory, and the directory
\* exists once Save has written.
C15_StoreStaysInSessionDir ==
    (/\ lastCmd.command \in {Command.Save, Command.Load, Command.Delete}
     /\ lastCmd.withPath
     /\ outcome = "returned") =>
        /\ io.file # <<>>
        /\ InSessionDir(io.file)
        /\ lastCmd.command = Command.Save => dirExists

\* The step is a Save or an autosave that wrote its file
Writes ==
    /\ turns' = turns + 1
    /\ io'.file # <<>>
    /\ \/ lastCmd'.command = Command.Save /\ lastCmd'.withPath
       \/ autosaved'

\* C16 as claimed: every Save and autosave writes a file that did not exist
\* before, and changes the content of no file that exists.
C16_SaveWritesFreshFile ==
    [][Writes =>
          /\ io'.file \notin DOMAIN fs
          /\ \A p \in DOMAIN fs : fs'[p] = fs[p]
      ]_vars

\* C16 as amended: a Save or autosave writes one whole record (the history,
\* the default model, the time of the write) to the one file its name
\* designates, creating it or replacing all of its content, and leaves every
\* other file as it was.
C16_SaveReplacesWholeRecord ==
    [][Writes =>
          /\ DOMAIN fs' = DOMAIN fs \cup {io'.file}
          /\ \A p \in DOMAIN fs \ {io'.file} : fs'[p] = fs[p]
          /\ fs'[io'.file].mtime = now
          /\ fs'[io'.file].text.kind = "json"
          /\ fs'[io'.file].text.model = paramsModel
          /\ fs'[io'.file].text.timestamp = toISOString(now)
          /\ Len(fs'[io'.file].text.messages) = Len(messages)
          /\ \A i \in 1..Len(messages) :
                fs'[io'.file].text.messages[i].content = messages[i].content
      ]_vars

C16_Witness ==
    /\ lastCmd.command = Command.Save
    /\ outcome = "returned"
    /\ io.file = sessionPath(<<"x">>)
    /\ entryPath(<<"notes", ".txt">>) \in DOMAIN fs
    /\ fs[io.file].text.model = "gpt-4"
    /\ fs[io.file].mtime > 1
    /\ messages # <<>>

\* The rules of modelMap in every order
RECURSIVE Arrangements(_)
Arrangements(rules) ==
    IF rules = {} THEN {<<>>}
    ELSE UNION {{<<r>> \o rest : rest \in Arrangements(rules \ {r})} : r \in rules}

TableOrders == Arrangements(Range(modelMap))

\* The text starts with one of gpt, o<digit>, claude, gem, grok, azure
StartsWith(text, prefix) ==
    Len(text) >= Len(prefix) /\ SubSeq(text, 1, Len(prefix)) = prefix

KnownPrefixes ==
    {<<"g", "p", "t">>, <<"c", "l", "a", "u", "d", "e">>, <<"g", "e", "m">>,
     <<"g", "r", "o", "k">>, <<"a", "z", "u", "r", "e">>}
    \cup {<<"o", d>> : d \in Digits}

\* C17: at most one key of modelMap matches a model identifier, so the
\* strategy the first match selects is the same for every order of the
\* table, and an identifier that starts with none of gpt, o<digit>, claude,
\* gem, grok, azure gets no strategy.
C17_OneRulePerIdentifier ==
    pc = "done" =>
        /\ Cardinality({i \in 1..Len(modelMap) : matches(modelMap[i].key, arg)}) <= 1
        /\ \A table \in TableOrders : firstMatch(table, arg) = ret
        /\ (\A prefix \in KnownPrefixes : ~StartsWith(arg, prefix)) => ret = "none"

C17_Witness ==
    /\ pc = "done"
    /\ arg = <<"a", "z", "u", "r", "e", "-", "g", "p", "t">>
    /\ ret = "createAzureOpenAIInstance"

\* C18: Help, ModelStack, Sessions, Save and Delete leave history, default
\* model and ModelStack as they were; a turn that changes the default model
\* or ModelStack is a Load or a ResumeLatest; a turn that changes the history
\* is a File, Clear, Load or ResumeLatest; ModelStack never loses a member.
C18_FrameOfCommands ==
    [][/\ modelStack \subseteq modelStack'
       /\ Turn({Command.Help, Command.ModelStack, Command.Sessions, Command.Save,
                Command.Delete})
             => UNCHANGED <<messages, paramsModel, modelStack>>
       /\ (paramsModel' # paramsModel \/ modelStack' # modelStack)
             => Turn({Command.Load, Command.ResumeLatest})
       /\ messages' # messages
             => Turn({Command.File, Command.Clear, Command.Load, Command.ResumeLatest})
      ]_vars

C18_Witness ==
    /\ lastCmd.command = Command.Delete
    /\ lastCmd.withPath
    /\ outcome = "returned"
    /\ paramsModel = "claude-3"
    /\ modelStack = {"claude-3"}
    /\ Len(messages) = 2

\* C19: the file an autosave wrote holds every system, human and ai entry of
\* the history under its own role tag, the tag Save writes for it, so that
\* Load gives the entry back with the role it had.
C19_AutosaveKeepsRoles ==
    (autosaved /\ io.file # <<>>) =>
        LET stored == fs[io.file].text.messages
            loaded == loadSession(nameOf(io.file), "none").messages
        IN  /\ Len(stored) = Len(messages)
            /\ \A i \in 1..Len(messages) :
                  messages[i].type \in KnownRoles =>
                      /\ stored[i].type = messages[i].type
                      /\ hasGetType(messages[i]) => stored[i].type = _getType(messages[i].cls)
                      /\ loaded[i].type = messages[i].type

\* C20: File, Save, Load or Delete typed without an argument is classified
\* as the bare tag; the turn returns the history, default model and
\* ModelStack unchanged, removes no file and changes none, and writes at most
\* the autosave file, which it attempts.
C20_BareCommandOnlyAutosaves ==
    [][(Turn({Command.File, Command.Save, Command.Load, Command.Delete})
          /\ ~lastCmd'.withPath) =>
          /\ \A c \in {"/file", "/save", "/load", "/delete"}, margin \in Margins :
                newSlashCommand(margin \o <<c>> \o margin)
                    = [NoCommand EXCEPT !.command = commandMap[<<c>>]]
          /\ outcome' = "returned"
          /\ autosaved'
          /\ UNCHANGED <<messages, paramsModel, modelStack, pc>>
          /\ DOMAIN fs' \subseteq DOMAIN fs \cup {sessionPath(autoSaveName(now))}
          /\ \A p \in DOMAIN fs :
                /\ p \in DOMAIN fs'
                /\ p # sessionPath(autoSaveName(now)) => fs'[p] = fs[p]
      ]_vars

C20_Witness ==
    /\ lastCmd.command = Command.Delete
    /\ ~lastCmd.withPath
    /\ outcome = "returned"
    /\ autosaved
    /\ io.file \in DOMAIN fs
    /\ sessionPath(<<"x">>) \in DOMAIN fs
    /\ messages # <<>>

====
